---- MODULE Spec2Model ----
(***************************************************************************)
(* Model of the RLDP-HTTP transport (adnl/rldp/http/client.go):            *)
(* Transport.RoundTrip, Transport.connectRLDP, the pull-query handler      *)
(* returned by Transport.getRLDPQueryHandler and the disconnect callback.  *)
(*                                                                         *)
(* Every critical section of t.mx is one atomic step: the mutex makes the  *)
(* accesses inside it indivisible, and no collaborator call is made inside *)
(* one.  Every blocking collaborator call (Resolve, FindAddresses,         *)
(* Connect, DoQuery) is a step of its own, so other callers, the link      *)
(* layer's disconnect and the peer's pulls interleave around it.           *)
(***************************************************************************)
EXTENDS Integers, Sequences, FiniteSets, TLC

VARIABLES
    rldpClients,      \* Transport.rldpClients: host -> session (0 = no entry)
    activeRequests,   \* Transport.activeRequests: request id -> *payloadStream (NoStream = no entry)
    sess,             \* the *rldp.RLDP objects created so far, by session number
    call,             \* per caller: the locals of its RoundTrip call
    nCalls,           \* number of RoundTrip calls issued so far
    crashed,          \* a panic has unwound a RoundTrip call
    lastWriter,       \* history: host -> session of the last cache insertion
    okSess,           \* history: host -> session of the last successful call, 0 after a disconnect for the host
    discPending,      \* history: host -> a disconnect callback removed its entry and no call to it began since
    snap,             \* history: the two tables as they were when the call now acquiring a session began
    sequential,       \* one caller issues the calls; the history of its calls is recorded
    pull,             \* the pull handler's latest request and answer; the chunks pulled so far
    xchg,             \* one RoundTrip exchange in detail: the request, the message built, the parts pulled
    decode,           \* parseADNLAddress: the literal handed to it and what it returned
    mx,               \* Transport.mx with its holders, in the model of the critical sections
    threads,          \* the threads of the model of the critical sections
    proof             \* doGenerateMerkleProof: the dictionary, the keys and the cell returned

\* the variables of the models of single functions, which the transport model leaves alone
unitVars == <<xchg, decode, mx, threads, proof>>

\* the variables of the transport model
mainVars == <<rldpClients, activeRequests, sess, call, nCalls, crashed,
              lastWriter, okSess, discPending, snap, sequential, pull>>

vars == <<rldpClients, activeRequests, sess, call, nCalls, crashed,
          lastWriter, okSess, discPending, snap, sequential, pull, unitVars>>

----------------------------------------------------------------------------
(* Bounds of the model *)

\* RoundTrip calls issued in one behaviour
MaxCalls == 2
\* length of a staged payload pulled by the peer
MaxLen == 9
\* width in bits of the model's int32 (Seqno, MaxChunkSize): 4 stands for 32
IntBits == 4
\* candidate endpoints the directory returns
MaxAddrs == 2
\* response parts one call pulls
MaxParts == 2

(* Program constants *)

\* for i := 0; i < 3; i++
ResolveAttempts == 3

Callers == {"c1", "c2"}
SeqCaller == "c1"

\* "good.adnl" and "bad.adnl" end in the literal-address suffix; the literal
\* of the first decodes, that of the second does not.
Hosts == {"good.adnl", "bad.adnl", "site.ton"}

\* a payload of n distinct bytes
Payload(n) == [k \in 1..n |-> k]
\* the request bodies of the RoundTrip calls
Bodies == {Payload(3)}

\* a nil *payloadStream, and one holding data
NoStream == [present |-> FALSE, Data |-> <<>>]
Stream(data) == [present |-> TRUE, Data |-> data]
\* no pull has been made
NoPull == [mode |-> "none"]
NoExchange == [pc |-> "none"]
\* no single function is being exercised
NoDecode == [pc |-> "none"]
NoLock == [writer |-> "", readers |-> {}]
NoThreads == <<>>
NoProof == [pc |-> "none"]
UnitsIdle ==
    /\ xchg = NoExchange
    /\ decode = NoDecode
    /\ mx = NoLock
    /\ threads = NoThreads
    /\ proof = NoProof
NoErr == <<"nil", 0>>
CallIds == 1..MaxCalls

\* strings.HasSuffix(request.Host, ".adnl")
HasAdnlSuffix(h) == h \in {"good.adnl", "bad.adnl"}

\* whether parseADNLAddress accepts the literal of host h
LiteralDecodes(h) == h = "good.adnl"

\* the ordered candidate lists FindAddresses may return: endpoints 1..n
AddrLists == {[i \in 1..n |-> i] : n \in 0..MaxAddrs}

NoSession == [state |-> "none", host |-> "", onQuery |-> FALSE, onDisconnect |-> FALSE]

NoSnap == <<>>

\* the call is past the cache lookup and has not yet a session to use
AcquiringPcs == {"parse", "resolve", "find", "connect", "install", "setq", "setd", "stage"}

\* a history value is recorded in sequential behaviours only
Hist(x, none) == IF sequential THEN x ELSE none

IdleCall ==
    [pc |-> "idle", id |-> 0, host |-> "", rl |-> 0, r |-> 0, err |-> NoErr,
     i |-> 0, addresses |-> <<>>, idx |-> 0, triedAddresses |-> <<>>,
     body |-> FALSE, data |-> <<>>, seqno |-> 0, outcome |-> "none",
     \* history of the call, for the properties
     resolveLog |-> <<>>, finds |-> 0, attempted |-> <<>>, staged |-> FALSE,
     sent |-> FALSE, missed |-> FALSE, okAtStart |-> 0, afterDisc |-> FALSE,
     disturbed |-> FALSE]

----------------------------------------------------------------------------
(* Shared tables *)

\* mutant: the lookup misses whatever the cache holds
CacheLookupMisses(m, h) == 0

\* rl := t.rldpClients[request.Host]
CacheLookup(m, h) == m[h]

\* mutant: the first writer wins
CacheInsertIfAbsent(m, h, s) == IF m[h] = 0 THEN [m EXCEPT ![h] = s] ELSE m

\* t.rldpClients[id] = r
CacheInsert(m, h, s) == [m EXCEPT ![h] = s]

\* mutant: the session is stored before the link is known to be up
AfterFailedConnectStored(m, h, s) == [m EXCEPT ![h] = s]

\* lines 63-70: connectRLDP returns the error of NewADNL or Connect before it
\* reaches the cache
AfterFailedConnect(m, h, s) == m

\* delete(t.rldpClients, id)
CacheDelete(m, h) == [m EXCEPT ![h] = 0]

\* mutant: the stream is registered without its bytes
StreamInsertEmpty(m, id, data) == [m EXCEPT ![id] = Stream(<<>>)]

\* t.activeRequests[hex(qid)] = &payloadStream{Data: data}
StreamInsert(m, id, data) == [m EXCEPT ![id] = Stream(data)]

\* delete(t.activeRequests, hex(qid))
StreamDelete(m, id) == [m EXCEPT ![id] = NoStream]

----------------------------------------------------------------------------
Init ==
    /\ rldpClients = [h \in Hosts |-> 0]
    /\ activeRequests = [c \in CallIds |-> NoStream]
    /\ sess = [c \in CallIds |-> NoSession]
    /\ call = [t \in Callers |-> IdleCall]
    /\ nCalls = 0
    /\ crashed = FALSE
    /\ lastWriter = [h \in Hosts |-> 0]
    /\ okSess = [h \in Hosts |-> 0]
    /\ discPending = [h \in Hosts |-> FALSE]
    /\ snap = NoSnap
    /\ sequential = FALSE
    /\ pull = NoPull
    /\ UnitsIdle

----------------------------------------------------------------------------
(* Transport.RoundTrip, one action per blocking call or critical section *)

\* a return statement of RoundTrip with error e: the locals die; a sequential
\* behaviour keeps the history of the call until its caller's next call
Returned(c, e, out) ==
    IF sequential
      THEN [c EXCEPT !.pc = "idle", !.rl = 0, !.body = FALSE, !.data = <<>>, !.seqno = 0,
                     !.err = e, !.outcome = out]
      ELSE IdleCall

\* lines 128-134: a caller enters RoundTrip and looks its host up in the cache
StartCall(t) ==
    /\ ~crashed
    /\ call[t].pc = "idle"
    /\ nCalls < MaxCalls
    /\ sequential => t = SeqCaller
    /\ \E h \in Hosts :
         LET rl == CacheLookup(rldpClients, h) IN
         /\ call' = [call EXCEPT ![t] =
                [IdleCall EXCEPT
                   !.pc = IF rl # 0 THEN "stage"
                          ELSE IF HasAdnlSuffix(h) THEN "parse" ELSE "resolve",
                   !.id = nCalls + 1, !.host = h, !.rl = rl,
                   !.missed = Hist(rl = 0, FALSE),
                   !.okAtStart = okSess[h], !.afterDisc = discPending[h]]]
         /\ discPending' = [discPending EXCEPT ![h] = FALSE]
    /\ nCalls' = nCalls + 1
    /\ snap' = IF sequential THEN <<rldpClients, activeRequests>> ELSE NoSnap
    /\ UNCHANGED <<rldpClients, activeRequests, sess, crashed, lastWriter, okSess,
                   sequential, pull, unitVars>>

\* lines 138-142: the host is a literal address
Parse(t) ==
    /\ ~crashed
    /\ call[t].pc = "parse"
    /\ call' = [call EXCEPT ![t] =
          IF LiteralDecodes(call[t].host)
            THEN [call[t] EXCEPT !.pc = "find"]
            ELSE Returned(call[t], <<"parse", 0>>, "errParse")]
    /\ UNCHANGED <<rldpClients, activeRequests, sess, nCalls, crashed,
                   lastWriter, okSess, discPending, snap, sequential, pull, unitVars>>

\* mutant: the loop bound is off by one
ResolveContinuesOnceMore(i, failed) == failed /\ i <= ResolveAttempts

\* lines 145-152: whether the loop runs again after iteration number i
\* (counted from 1) ended with the given result
ResolveContinues(i, failed) == failed /\ i < ResolveAttempts

\* lines 145-157: one Resolve call of the retry loop, and what follows the loop
Resolve(t) ==
    /\ ~crashed
    /\ call[t].pc = "resolve"
    /\ \E failed \in BOOLEAN :
         LET n == call[t].i + 1
             e == IF failed THEN <<"resolve", n>> ELSE NoErr
             c == [call[t] EXCEPT !.i = n, !.err = e,
                                  !.resolveLog = Hist(Append(@, ~failed), <<>>)]
         IN call' = [call EXCEPT ![t] =
                IF ResolveContinues(n, failed) THEN c
                ELSE IF e # NoErr THEN Returned(c, e, "errResolve")
                ELSE [c EXCEPT !.pc = "find"]]
    /\ UNCHANGED <<rldpClients, activeRequests, sess, nCalls, crashed,
                   lastWriter, okSess, discPending, snap, sequential, pull, unitVars>>

\* lines 160-166: the directory lookup; an empty list skips the loop over it.
\* The resolve loop's locals are dead from here on and are dropped.
Find(t) ==
    /\ ~crashed
    /\ call[t].pc = "find"
    /\ LET c == [call[t] EXCEPT !.i = 0, !.resolveLog = <<>>,
                                !.finds = Hist(@ + 1, 0)] IN
       \/ call' = [call EXCEPT ![t] = Returned(c, <<"dht", 0>>, "errDHT")]
       \/ \E a \in AddrLists :
            call' = [call EXCEPT ![t] =
              [c EXCEPT !.addresses = a, !.idx = 1, !.err = NoErr,
                        !.pc = IF Len(a) = 0 THEN "stage" ELSE "connect"]]
    /\ UNCHANGED <<rldpClients, activeRequests, sess, nCalls, crashed,
                   lastWriter, okSess, discPending, snap, sequential, pull, unitVars>>

\* mutant: the loop skips a candidate
NextCandidateSkips(idx) == idx + 2

\* lines 166, 170-175: the index of the candidate dialled after candidate idx failed
NextCandidate(idx) == idx + 1

\* lines 62-72 and 166-178: connectRLDP dials candidate idx; on failure the loop
\* moves on, and past the last candidate RoundTrip returns the error.  After a
\* success the loop's locals are never read again.
Connect(t) ==
    /\ ~crashed
    /\ call[t].pc = "connect"
    /\ call[t].idx \in 1..Len(call[t].addresses)
    /\ LET ep == call[t].addresses[call[t].idx]
           c == [call[t] EXCEPT !.attempted = Hist(Append(@, ep), <<>>)]
       IN
       \/ /\ sess' = [sess EXCEPT ![c.id] =
                 [state |-> "live", host |-> c.host,
                  onQuery |-> FALSE, onDisconnect |-> FALSE]]
          /\ UNCHANGED rldpClients
          /\ call' = [call EXCEPT ![t] =
                 [c EXCEPT !.r = c.id, !.pc = "install",
                           !.addresses = Hist(@, <<>>), !.idx = Hist(@, 0),
                           !.triedAddresses = Hist(@, <<>>)]]
       \/ /\ UNCHANGED sess
          /\ rldpClients' = AfterFailedConnect(rldpClients, c.host, c.id)
          /\ LET n == NextCandidate(c.idx)
                 e == <<"connect", c.idx>>
                 d == [c EXCEPT !.err = e, !.idx = n, !.triedAddresses = Append(@, ep)]
             IN call' = [call EXCEPT ![t] =
                    IF n \in 1..Len(c.addresses) THEN d
                    ELSE Returned(d, e, "errConnect")]
    /\ UNCHANGED <<activeRequests, nCalls, crashed,
                   lastWriter, okSess, discPending, snap, sequential, pull, unitVars>>

\* lines 74-77: connectRLDP stores the new session in the cache
Install(t) ==
    /\ ~crashed
    /\ call[t].pc = "install"
    /\ rldpClients' = CacheInsert(rldpClients, call[t].host, call[t].r)
    /\ lastWriter' = [lastWriter EXCEPT ![call[t].host] = call[t].r]
    /\ call' = [call EXCEPT ![t].pc = "setq"]
    /\ UNCHANGED <<activeRequests, sess, nCalls, crashed, okSess, discPending, snap,
                   sequential, pull, unitVars>>

\* line 79: r.SetOnQuery
SetOnQuery(t) ==
    /\ ~crashed
    /\ call[t].pc = "setq"
    /\ sess' = [sess EXCEPT ![call[t].r].onQuery = TRUE]
    /\ call' = [call EXCEPT ![t].pc = "setd"]
    /\ UNCHANGED <<rldpClients, activeRequests, nCalls, crashed,
                   lastWriter, okSess, discPending, snap, sequential, pull, unitVars>>

\* lines 80-86 and 169-171: r.SetOnDisconnect; connectRLDP returns r and the
\* loop over the candidates breaks
SetOnDisconnect(t) ==
    /\ ~crashed
    /\ call[t].pc = "setd"
    /\ sess' = [sess EXCEPT ![call[t].r].onDisconnect = TRUE]
    /\ call' = [call EXCEPT ![t].rl = call[t].r, ![t].err = NoErr, ![t].pc = "stage"]
    /\ UNCHANGED <<rldpClients, activeRequests, nCalls, crashed,
                   lastWriter, okSess, discPending, snap, sequential, pull, unitVars>>

\* lines 181-234: the request identifier is drawn, the request message built,
\* the body (if any) read and registered under the identifier.  The locals of
\* the session acquisition are dead from here on and are dropped.
Stage(t) ==
    /\ ~crashed
    /\ call[t].pc = "stage"
    /\ LET c == [call[t] EXCEPT !.addresses = <<>>, !.idx = 0, !.triedAddresses = <<>>,
                                !.r = 0, !.finds = 0, !.attempted = <<>>,
                                !.disturbed = FALSE]
       IN
       \/ /\ call' = [call EXCEPT ![t] = Returned(c, <<"rand", 0>>, "errRand")]
          /\ UNCHANGED activeRequests
       \/ /\ call' = [call EXCEPT ![t] = Returned(c, <<"read", 0>>, "errReadBody")]
          /\ UNCHANGED activeRequests
       \/ /\ call' = [call EXCEPT ![t] = [c EXCEPT !.pc = "query"]]
          /\ UNCHANGED activeRequests
       \/ \E data \in Bodies :
          /\ activeRequests' = StreamInsert(activeRequests, c.id, data)
          /\ call' = [call EXCEPT ![t] =
                 [c EXCEPT !.pc = "query", !.body = TRUE, !.data = data,
                           !.staged = Hist(TRUE, FALSE)]]
    /\ snap' = NoSnap
    /\ UNCHANGED <<rldpClients, sess, nCalls, crashed,
                   lastWriter, okSess, discPending, sequential, pull, unitVars>>

\* a query on a session is answered only while its link is up
Answers(s) == sess[s].state = "live"

\* lines 236-240: rl.DoQuery with the request message.  When no session was
\* obtained rl is nil and the call dereferences it.
Query(t) ==
    /\ ~crashed
    /\ call[t].pc = "query"
    /\ IF call[t].rl = 0
         THEN /\ crashed' = TRUE
              /\ call' = [call EXCEPT ![t] = Returned(call[t], NoErr, "panic")]
         ELSE /\ UNCHANGED crashed
              /\ LET c == [call[t] EXCEPT !.sent = Hist(TRUE, FALSE)] IN
                 \/ call' = [call EXCEPT ![t] = Returned(c, <<"query", 0>>, "errQuery")]
                 \/ /\ Answers(c.rl)
                    /\ call' = [call EXCEPT ![t] = [c EXCEPT !.pc = "cleanup"]]
    /\ UNCHANGED <<rldpClients, activeRequests, sess, nCalls,
                   lastWriter, okSess, discPending, snap, sequential, pull, unitVars>>

\* lines 242-244: the staged body is released
Cleanup(t) ==
    /\ ~crashed
    /\ call[t].pc = "cleanup"
    /\ activeRequests' = StreamDelete(activeRequests, call[t].id)
    /\ call' = [call EXCEPT ![t].pc = "respond", ![t].body = FALSE, ![t].data = <<>>]
    /\ UNCHANGED <<rldpClients, sess, nCalls, crashed,
                   lastWriter, okSess, discPending, snap, sequential, pull, unitVars>>

\* line 297: RoundTrip returns the response; in a sequential behaviour the
\* session that served the call is remembered while its link is up
Succeed(t) ==
    /\ call' = [call EXCEPT ![t] = Returned(call[t], NoErr, "ok")]
    /\ okSess' = [okSess EXCEPT ![call[t].host] =
                    IF sequential /\ sess[call[t].rl].state = "live"
                      THEN call[t].rl ELSE 0]

\* lines 246-273 and 295-297: the response is built; its content length is
\* parsed from the request's Content-Length header; noPayload is the flag of
\* the response message
Respond(t) ==
    /\ ~crashed
    /\ call[t].pc = "respond"
    /\ \E hdr \in {"absent", "invalid", "zero", "positive"}, noPayload \in BOOLEAN :
         CASE hdr = "invalid" ->
                /\ call' = [call EXCEPT ![t] =
                              Returned(call[t], <<"length", 0>>, "errContentLength")]
                /\ UNCHANGED okSess
           [] hdr = "positive" /\ ~noPayload ->
                /\ call' = [call EXCEPT ![t].pc = "pull", ![t].seqno = 0]
                /\ UNCHANGED okSess
           [] OTHER -> Succeed(t)
    /\ UNCHANGED <<rldpClients, activeRequests, sess, nCalls, crashed,
                   lastWriter, discPending, snap, sequential, pull, unitVars>>

\* lines 274-297: one GetNextPayloadPart query of the response body
Pull(t) ==
    /\ ~crashed
    /\ call[t].pc = "pull"
    /\ \/ /\ call' = [call EXCEPT ![t] = Returned(call[t], <<"pull", 0>>, "errPull")]
          /\ UNCHANGED okSess
       \/ /\ Answers(call[t].rl)
          /\ Succeed(t)
       \/ /\ Answers(call[t].rl)
          /\ call[t].seqno + 1 < MaxParts
          /\ call' = [call EXCEPT ![t].seqno = @ + 1]
          /\ UNCHANGED okSess
    /\ UNCHANGED <<rldpClients, activeRequests, sess, nCalls, crashed,
                   lastWriter, discPending, snap, sequential, pull, unitVars>>

----------------------------------------------------------------------------
(* The link layer *)

\* mutant: the callback leaves the cache alone
OnDisconnectKeeps(m, id) == m

\* lines 80-84: the callback installed by SetOnDisconnect
OnDisconnect(m, id) == CacheDelete(m, id)

\* the link of session s goes down; its disconnect callback, if installed, runs
Disconnect(s) ==
    /\ ~crashed
    /\ sess[s].state = "live"
    /\ sess' = [sess EXCEPT ![s].state = "dead"]
    /\ IF sess[s].onDisconnect
         THEN /\ rldpClients' = OnDisconnect(rldpClients, sess[s].host)
              /\ discPending' = [discPending EXCEPT ![sess[s].host] =
                                   @ \/ (sequential /\ rldpClients[sess[s].host] = s)]
         ELSE UNCHANGED <<rldpClients, discPending>>
    /\ okSess' = [okSess EXCEPT ![sess[s].host] = 0]
    /\ call' = [t \in Callers |->
                  IF sequential /\ call[t].pc \in AcquiringPcs
                    THEN [call[t] EXCEPT !.disturbed = TRUE]
                    ELSE call[t]]
    /\ UNCHANGED <<activeRequests, nCalls, crashed, lastWriter, snap, sequential, pull, unitVars>>

----------------------------------------------------------------------------
\* callers run concurrently; a panic ends the process
Next ==
    \/ \E t \in Callers :
         \/ StartCall(t)
         \/ Parse(t)
         \/ Resolve(t)
         \/ Find(t)
         \/ Connect(t)
         \/ Install(t)
         \/ SetOnQuery(t)
         \/ SetOnDisconnect(t)
         \/ Stage(t)
         \/ Query(t)
         \/ Cleanup(t)
         \/ Respond(t)
         \/ Pull(t)
    \/ \E s \in CallIds : Disconnect(s)

Spec == Init /\ [][Next]_vars

\* one caller issues its calls one after the other
InitSeq ==
    /\ rldpClients = [h \in Hosts |-> 0]
    /\ activeRequests = [c \in CallIds |-> NoStream]
    /\ sess = [c \in CallIds |-> NoSession]
    /\ call = [t \in Callers |-> IdleCall]
    /\ nCalls = 0
    /\ crashed = FALSE
    /\ lastWriter = [h \in Hosts |-> 0]
    /\ okSess = [h \in Hosts |-> 0]
    /\ discPending = [h \in Hosts |-> FALSE]
    /\ snap = NoSnap
    /\ sequential = TRUE
    /\ pull = NoPull
    /\ UnitsIdle

SpecSeq == InitSeq /\ [][Next]_vars

----------------------------------------------------------------------------
(* The pull handler returned by getRLDPQueryHandler *)

MinInt32 == -(2 ^ (IntBits - 1))
MaxInt32 == 2 ^ (IntBits - 1) - 1
Int32 == MinInt32..MaxInt32

\* the value of an int32 expression whose mathematical value is x
WrapInt32(x) == ((x - MinInt32) % (2 ^ IntBits)) + MinInt32

\* line 101: offset := int(req.Seqno * req.MaxChunkSize), the product taken in int32
PullOffset(seqno, maxChunkSize) == WrapInt32(seqno * maxChunkSize)

\* lines 106-109
PullTill(offset, maxChunkSize, len) ==
    IF offset + maxChunkSize < len THEN offset + maxChunkSize ELSE len

\* lines 91-124: what the handler does with a query.  kind is "answer" (a
\* PayloadPart handed to SendAnswer), an error returned without answering, or
\* "panic" when the slice expression of line 113 is out of range.
QueryHandler(streams, query) ==
    IF query.type # "GetNextPayloadPart"
      THEN [kind |-> "errUnexpectedType", data |-> <<>>, isLast |-> FALSE]
    ELSE LET stream == streams[query.id] IN
      IF ~stream.present
        THEN [kind |-> "errUnknownId", data |-> <<>>, isLast |-> FALSE]
      ELSE LET offset == PullOffset(query.seqno, query.maxChunkSize)
               len == Len(stream.Data)
               till == PullTill(offset, query.maxChunkSize, len)
           IN IF offset >= len
                THEN [kind |-> "errOffset", data |-> <<>>, isLast |-> FALSE]
              ELSE IF ~(0 <= offset /\ offset <= till)
                THEN [kind |-> "panic", data |-> <<>>, isLast |-> FALSE]
              ELSE [kind |-> "answer", data |-> SubSeq(stream.Data, offset + 1, till),
                    isLast |-> (till = len)]

\* the peer of a session whose query handler is installed
CanQuery(s) == sess[s].state = "live" /\ sess[s].onQuery

\* lines 111-122: the handler's return value once SendAnswer has returned
HandlerReturn(ans, sendFailed) ==
    IF ans.kind # "answer" THEN ans.kind
    ELSE IF sendFailed THEN "errSend" ELSE "nil"

\* the peer pulls the staged body of request id in order, with one chunk size;
\* it asks for the next chunk once it has received the previous one
PullSequential(s) ==
    /\ ~crashed
    /\ CanQuery(s)
    /\ pull.mode = "sequential"
    /\ ~pull.done
    /\ \E sendFailed \in BOOLEAN :
         LET q == [type |-> "GetNextPayloadPart", id |-> pull.id,
                   seqno |-> pull.next, maxChunkSize |-> pull.chunk]
             ans == QueryHandler(activeRequests, q)
             ret == HandlerReturn(ans, sendFailed)
         IN /\ pull' = IF ret = "nil"
                         THEN [pull EXCEPT !.next = @ + 1,
                                           !.parts = Append(@, ans),
                                           !.done = ans.isLast]
                       ELSE IF ret = "errSend" THEN pull
                       ELSE [pull EXCEPT !.parts = Append(@, ans), !.done = TRUE]
            /\ crashed' = (ans.kind = "panic")
    /\ UNCHANGED <<rldpClients, activeRequests, sess, call, nCalls,
                   lastWriter, okSess, discPending, snap, sequential, unitVars>>

\* the peer sends one query of its choosing
PullArbitrary(s) ==
    /\ ~crashed
    /\ CanQuery(s)
    /\ pull.mode = "sequential"
    /\ pull.next = 0
    /\ \E type \in {"GetNextPayloadPart", "Other"}, id \in CallIds,
          seqno \in Int32, maxChunkSize \in Int32, sendFailed \in BOOLEAN :
         LET q == [type |-> type, id |-> id, seqno |-> seqno,
                   maxChunkSize |-> maxChunkSize]
             ans == QueryHandler(activeRequests, q)
         IN /\ type = "Other" => id = 1 /\ seqno = 0 /\ maxChunkSize = 0
            /\ pull' = [mode |-> "arbitrary", query |-> q, answer |-> ans,
                        return |-> HandlerReturn(ans, sendFailed)]
            /\ crashed' = (ans.kind = "panic")
    /\ UNCHANGED <<rldpClients, activeRequests, sess, call, nCalls,
                   lastWriter, okSess, discPending, snap, sequential, unitVars>>

\* a RoundTrip call has staged a body of some length and its request is in
\* flight on an established session; the peer is about to pull the body
InitPull ==
    \E len \in 0..MaxLen, chunk \in 1..MaxInt32 :
      /\ rldpClients = [h \in Hosts |-> IF h = "site.ton" THEN 1 ELSE 0]
      /\ activeRequests = [c \in CallIds |-> IF c = 1 THEN Stream(Payload(len)) ELSE NoStream]
      /\ sess = [c \in CallIds |->
                   IF c = 1 THEN [state |-> "live", host |-> "site.ton",
                                  onQuery |-> TRUE, onDisconnect |-> TRUE]
                   ELSE NoSession]
      /\ call = [t \in Callers |->
                   IF t = SeqCaller
                     THEN [IdleCall EXCEPT !.pc = "query", !.id = 1, !.host = "site.ton",
                                           !.rl = 1, !.body = TRUE, !.data = Payload(len)]
                     ELSE IdleCall]
      /\ nCalls = 1
      /\ crashed = FALSE
      /\ lastWriter = [h \in Hosts |-> IF h = "site.ton" THEN 1 ELSE 0]
      /\ okSess = [h \in Hosts |-> 0]
      /\ discPending = [h \in Hosts |-> FALSE]
      /\ snap = NoSnap
      /\ sequential = FALSE
      /\ pull = [mode |-> "sequential", id |-> 1, chunk |-> chunk, next |-> 0,
                 parts |-> <<>>, done |-> FALSE]
      /\ UnitsIdle

NextPull ==
    \/ \E s \in CallIds : PullSequential(s)
    \/ \E s \in CallIds : PullArbitrary(s)

SpecPull == InitPull /\ [][NextPull]_vars

----------------------------------------------------------------------------
(* One exchange in detail: the request message and the response body *)

\* const _ChunkSize = 1 << 17
ChunkSize == 131072

\* decimal numerals, as fmt.Sprint writes them and strconv.ParseInt reads them
Numerals == <<"0", "1", "2">>

\* fmt.Sprint(n) for a non-negative n
Sprint(n) == Numerals[n + 1]

\* strconv.ParseInt(s, 10, 64)
ParseInt(s) ==
    IF \E k \in 1..Len(Numerals) : Numerals[k] = s
      THEN [err |-> FALSE, value |-> (CHOOSE k \in 1..Len(Numerals) : Numerals[k] = s) - 1]
      ELSE [err |-> TRUE, value |-> 0]

\* the values an inbound header name can carry
HeaderValues(name) ==
    CASE name = "Host" -> {<<"other.ton">>}
      [] name = "Content-Length" -> {<<>>, <<"0">>, <<"2">>, <<"two">>}
      [] OTHER -> {<<"a">>, <<"a", "b">>}

HeaderNames == {"Host", "Content-Length", "Accept"}

\* http.Header: a map from the names present to their values
HeaderMaps ==
    UNION {{h \in [names -> UNION {HeaderValues(n) : n \in HeaderNames}] :
              \A n \in names : h[n] \in HeaderValues(n)} : names \in SUBSET HeaderNames}

\* the requests handed to RoundTrip: Host, ContentLength and Header of http.Request
Requests ==
    [Host : {"site.ton"}, ContentLength : {-1, 0, 2}, Header : HeaderMaps]

\* the orders in which a range over a map can visit its keys
RangeOrders(m) ==
    {o \in [1..Cardinality(DOMAIN m) -> DOMAIN m] :
       \A a, b \in DOMAIN o : o[a] = o[b] => a = b}

\* lines 211-218: one entry per value of each name, the names in range order
RECURSIVE RangeHeaders(_, _)
RangeHeaders(header, order) ==
    IF order = <<>> THEN <<>>
    ELSE [k \in 1..Len(header[Head(order)]) |->
            [Name |-> Head(order), Value |-> header[Head(order)][k]]]
         \o RangeHeaders(header, Tail(order))

\* lines 192-219: the header list of the request message
RequestHeaders(request, order) ==
    <<[Name |-> "Host", Value |-> request.Host]>>
    \o (IF request.ContentLength > 0
          THEN <<[Name |-> "Content-Length", Value |-> Sprint(request.ContentLength)]>>
          ELSE <<>>)
    \o RangeHeaders(request.Header, order)

\* lines 246-267: the content length of the response, -1 unless the request's
\* header map has a Content-Length value, which is then parsed
ResponseContentLength(request) ==
    IF "Content-Length" \in DOMAIN request.Header
         /\ Len(request.Header["Content-Length"]) > 0
      THEN ParseInt(request.Header["Content-Length"][1])
      ELSE [err |-> FALSE, value |-> -1]

\* the response messages of the peer
Responses == [StatusCode : {200, 404}, NoPayload : BOOLEAN]

\* the payload of the PayloadPart that answers pull number n: parts past
\* the first MaxParts carry no bytes
PartData(n) == IF n < MaxParts THEN {<<>>, <<n + 1>>} ELSE {<<>>}

\* pulls one call is followed through: enough for seqno to pass the largest int32
PullLimit == 2 ^ (IntBits - 1) + 1

NoReturn == [kind |-> "none", StatusCode |-> 0, ContentLength |-> 0, Body |-> <<>>]
ReturnError == [kind |-> "error", StatusCode |-> 0, ContentLength |-> 0, Body |-> <<>>]
ReturnResponse(status, length, body) ==
    [kind |-> "response", StatusCode |-> status, ContentLength |-> length, Body |-> body]

\* lines 192-219: the request message is built
BuildRequest ==
    /\ xchg.pc = "build"
    /\ \E order \in RangeOrders(xchg.request.Header) :
         xchg' = [xchg EXCEPT !.pc = "query",
                              !.Headers = RequestHeaders(xchg.request, order)]
    /\ UNCHANGED <<mainVars, decode, mx, threads, proof>>

\* lines 236-273 and 295-297: rl.DoQuery returns; the response is built and
\* either returned or its body pulled
Exchange ==
    /\ xchg.pc = "query"
    /\ \/ xchg' = [xchg EXCEPT !.pc = "done", !.ret = ReturnError]
       \/ \E res \in Responses :
            LET length == ResponseContentLength(xchg.request) IN
            xchg' = IF length.err
                      THEN [xchg EXCEPT !.pc = "done", !.res = res, !.ret = ReturnError]
                    ELSE IF length.value > 0 /\ ~res.NoPayload
                      THEN [xchg EXCEPT !.pc = "pull", !.res = res, !.seqno = 0,
                                        !.ContentLength = length.value]
                    ELSE [xchg EXCEPT !.pc = "done", !.res = res,
                                      !.ContentLength = length.value,
                                      !.ret = ReturnResponse(res.StatusCode, length.value, <<>>)]
    /\ UNCHANGED <<mainVars, decode, mx, threads, proof>>

\* lines 274-297: one turn of the pull loop
PullPart ==
    /\ xchg.pc = "pull"
    /\ Len(xchg.pulls) < PullLimit
    /\ LET q == [ID |-> xchg.ID, Seqno |-> xchg.seqno, MaxChunkSize |-> ChunkSize]
           x == [xchg EXCEPT !.pulls = Append(@, q)]
       IN \/ xchg' = [x EXCEPT !.pc = "done", !.ret = ReturnError]
          \/ \E data \in PartData(Len(xchg.parts)), isLast \in BOOLEAN :
               LET buf == x.buf \o data
                   y == [x EXCEPT !.parts = Append(@, [Data |-> data, IsLast |-> isLast]),
                                  !.buf = buf,
                                  !.seqno = WrapInt32(@ + 1)]
               IN xchg' = IF isLast
                            THEN [y EXCEPT !.pc = "done",
                                           !.ret = ReturnResponse(x.res.StatusCode,
                                                                  x.ContentLength, buf)]
                            ELSE y
    /\ UNCHANGED <<mainVars, decode, mx, threads, proof>>

\* a RoundTrip call for a cached session is about to build its request message
InitExchange ==
    \E request \in Requests :
      /\ rldpClients = [h \in Hosts |-> IF h = "site.ton" THEN 1 ELSE 0]
      /\ activeRequests = [c \in CallIds |-> NoStream]
      /\ sess = [c \in CallIds |->
                   IF c = 1 THEN [state |-> "live", host |-> "site.ton",
                                  onQuery |-> TRUE, onDisconnect |-> TRUE]
                   ELSE NoSession]
      /\ call = [t \in Callers |->
                   IF t = SeqCaller
                     THEN [IdleCall EXCEPT !.pc = "stage", !.id = 1, !.host = "site.ton",
                                           !.rl = 1]
                     ELSE IdleCall]
      /\ nCalls = 1
      /\ crashed = FALSE
      /\ lastWriter = [h \in Hosts |-> IF h = "site.ton" THEN 1 ELSE 0]
      /\ okSess = [h \in Hosts |-> 0]
      /\ discPending = [h \in Hosts |-> FALSE]
      /\ snap = NoSnap
      /\ sequential = FALSE
      /\ pull = NoPull
      /\ decode = NoDecode
      /\ mx = NoLock
      /\ threads = NoThreads
      /\ proof = NoProof
      /\ xchg = [pc |-> "build", ID |-> 1, request |-> request, Headers |-> <<>>,
                 res |-> [StatusCode |-> 0, NoPayload |-> FALSE], ContentLength |-> -1,
                 seqno |-> 0, buf |-> <<>>, pulls |-> <<>>, parts |-> <<>>,
                 ret |-> NoReturn]

NextExchange ==
    \/ BuildRequest
    \/ Exchange
    \/ PullPart

SpecExchange == InitExchange /\ [][NextExchange]_vars

----------------------------------------------------------------------------
(* parseADNLAddress: a literal is a sequence of ASCII codes *)

\* the exclusive or of two naturals
Xor(a, b) ==
    LET x[i \in Nat, j \in Nat] ==
          IF i = 0 THEN j
          ELSE IF j = 0 THEN i
          ELSE ((i + j) % 2) + 2 * x[i \div 2, j \div 2]
    IN x[a, b]

\* one bit step of the CRC-16 with polynomial 0x1021, most significant bit first
Crc16Bit(crc) ==
    LET step[c \in Nat] ==
          IF c >= 32768 THEN Xor((c * 2) % 65536, 4129) ELSE (c * 2) % 65536
    IN step[crc]

\* one byte step: the byte enters at the top, then eight bit steps
Crc16Byte(crc, byte) ==
    Crc16Bit(Crc16Bit(Crc16Bit(Crc16Bit(Crc16Bit(Crc16Bit(Crc16Bit(Crc16Bit(
        Xor(crc, byte * 256)))))))))

\* crc16.Checksum(data, crc16.MakeTable(crc16.CRC16_XMODEM)): initial value 0,
\* no reflection, no final exclusive or; the bytes are taken in order, the
\* sum over data[lo..hi] being the sum over its second half started from the
\* sum over its first half
Crc16From(crc, data) ==
    LET sum[c \in Nat, lo \in Nat, hi \in Nat] ==
          IF lo > hi THEN c
          ELSE IF lo = hi THEN Crc16Byte(c, data[lo])
          ELSE sum[sum[c, lo, (lo + hi) \div 2], ((lo + hi) \div 2) + 1, hi]
    IN sum[crc, 1, Len(data)]

Crc16(data) == Crc16From(0, data)

\* strings.ToUpper on ASCII text
ToUpper(text) ==
    [k \in 1..Len(text) |-> IF text[k] >= 97 /\ text[k] <= 122 THEN text[k] - 32 ELSE text[k]]

\* the alphabet of base32.StdEncoding: 'A'..'Z' are 0..25, '2'..'7' are 26..31
Base32Digit(ch) ==
    IF ch >= 65 /\ ch <= 90 THEN ch - 65
    ELSE IF ch >= 50 /\ ch <= 55 THEN ch - 24
    ELSE -1

Base32Char(d) == IF d < 26 THEN d + 65 ELSE d + 24

\* the padding character '='
Pad == 61

\* the number of padding characters at the end of a text
RECURSIVE TrailingPads(_)
TrailingPads(text) ==
    IF text # <<>> /\ text[Len(text)] = Pad
      THEN 1 + TrailingPads(SubSeq(text, 1, Len(text) - 1))
      ELSE 0

\* bit number j (1 is the most significant) of the w-bit number v
BitOf(v, w, j) == (v \div (2 ^ (w - j))) % 2

\* base32.StdEncoding.DecodeString on a text of whole 8-character groups
\* without line breaks: 5 bits a character, most significant first; padding
\* is legal at the end of the last group only, 1, 3, 4 or 6 characters of it
Base32Decode(text) ==
    LET pads == TrailingPads(text)
        used == Len(text) - pads
        digit(k) == IF k <= used THEN Base32Digit(text[k]) ELSE 0
        bit(n) == BitOf(digit(((n - 1) \div 5) + 1), 5, ((n - 1) % 5) + 1)
        size == (used * 5) \div 8
    IN IF pads \notin {0, 1, 3, 4, 6} \/ \E k \in 1..used : Base32Digit(text[k]) < 0
         THEN [err |-> TRUE, buf |-> <<>>]
         ELSE [err |-> FALSE,
               buf |-> [i \in 1..size |->
                          bit(8 * i - 7) * 128 + bit(8 * i - 6) * 64 + bit(8 * i - 5) * 32
                          + bit(8 * i - 4) * 16 + bit(8 * i - 3) * 8 + bit(8 * i - 2) * 4
                          + bit(8 * i - 1) * 2 + bit(8 * i)]]

\* base32.StdEncoding.EncodeToString on a buffer of whole 5-byte groups
Base32Encode(buf) ==
    LET bit(n) == BitOf(buf[((n - 1) \div 8) + 1], 8, ((n - 1) % 8) + 1)
    IN [k \in 1..(Len(buf) * 8) \div 5 |->
          Base32Char(bit(5 * k - 4) * 16 + bit(5 * k - 3) * 8 + bit(5 * k - 2) * 4
                     + bit(5 * k - 1) * 2 + bit(5 * k))]

ParseError(e) == [err |-> e, key |-> <<>>]

\* lines 300-321.  binary.BigEndian.Uint16(buf[33:]) panics when buf has
\* fewer than 35 bytes.
parseADNLAddress(addr) ==
    IF Len(addr) # 55 THEN ParseError("wrong id length")
    ELSE LET dec == Base32Decode(<<70>> \o ToUpper(addr))
             buf == dec.buf
         IN IF dec.err THEN ParseError("failed to decode address")
            ELSE IF buf[1] # 45 THEN ParseError("invalid first byte")
            ELSE IF Len(buf) < 35 THEN ParseError("panic")
            ELSE LET hash == buf[34] * 256 + buf[35]
                     calc == Crc16(SubSeq(buf, 1, 33))
                 IN IF hash # calc THEN ParseError("invalid address")
                    ELSE [err |-> "nil", key |-> SubSeq(buf, 1, 32)]

\* the 32-byte keys tried: byte i of the key is stride * i + offset
MaxStride == 3
KeyOffsets == {0, 45, 77, 200, 255}
Key(stride, offset) == [i \in 1..32 |-> (stride * i + offset) % 256]
Keys == {Key(stride, offset) : stride \in 0..MaxStride, offset \in KeyOffsets}

\* the 35-byte buffer of a key: the tag 0x2d, the key, the CRC-16 of those 33 bytes
AddressBuffer(key) ==
    LET body == <<45>> \o key
        sum == Crc16(body)
    IN body \o <<sum \div 256, sum % 256>>

\* the literal of a key: the base-32 text of its buffer without the leading 'F'
EncodeADNLAddress(key) == Tail(Base32Encode(AddressBuffer(key)))

ToLower(text) ==
    [k \in 1..Len(text) |-> IF text[k] >= 65 /\ text[k] <= 90 THEN text[k] + 32 ELSE text[k]]

\* the literals handed to parseADNLAddress for a key: the literal itself in
\* upper and in lower case, and literals spoilt in one place
Literals(key) ==
    LET text == EncodeADNLAddress(key) IN
    { [kind |-> "upper", addr |-> text],
      [kind |-> "lower", addr |-> ToLower(text)],
      [kind |-> "checksum", addr |-> [text EXCEPT ![55] = IF @ = 65 THEN 66 ELSE 65]],
      [kind |-> "tag", addr |-> [text EXCEPT ![1] = 65]],
      [kind |-> "length", addr |-> SubSeq(text, 1, 54)],
      [kind |-> "character", addr |-> [text EXCEPT ![10] = 49]],
      [kind |-> "padding", addr |-> [text EXCEPT ![55] = Pad]] }

\* lines 300-321: parseADNLAddress is called with the literal
ParseADNLAddress ==
    /\ decode.pc = "call"
    /\ decode' = [decode EXCEPT !.pc = "done", !.ret = parseADNLAddress(decode.addr)]
    /\ UNCHANGED <<mainVars, xchg, mx, threads, proof>>

\* RoundTrip is about to decode the literal of a host name
InitDecode ==
    \E key \in Keys : \E lit \in Literals(key) :
      /\ rldpClients = [h \in Hosts |-> 0]
      /\ activeRequests = [c \in CallIds |-> NoStream]
      /\ sess = [c \in CallIds |-> NoSession]
      /\ call = [t \in Callers |-> IdleCall]
      /\ nCalls = 0
      /\ crashed = FALSE
      /\ lastWriter = [h \in Hosts |-> 0]
      /\ okSess = [h \in Hosts |-> 0]
      /\ discPending = [h \in Hosts |-> FALSE]
      /\ snap = NoSnap
      /\ sequential = FALSE
      /\ pull = NoPull
      /\ xchg = NoExchange
      /\ mx = NoLock
      /\ threads = NoThreads
      /\ proof = NoProof
      /\ decode = [pc |-> "call", kind |-> lit.kind, key |-> key, addr |-> lit.addr,
                   ret |-> ParseError("none")]

NextDecode == ParseADNLAddress

SpecDecode == InitDecode /\ [][NextDecode]_vars

----------------------------------------------------------------------------
(* The critical sections of t.mx: every Lock, Unlock, table access and       *)
(* blocking collaborator call of the code is one instruction of its thread.  *)
(* An instruction is what it does, what it does it on, and the instructions  *)
(* that can follow it; 0 stands for the return of the function.              *)

Instr(op, on, next) == [op |-> op, on |-> on, next |-> next]

\* RoundTrip with connectRLDP inlined, lines 128-297 and 62-86
RoundTripCode ==
    << Instr("RLock", "mx", {2}),                       \* 129
       Instr("read", "rldpClients", {3}),               \* 130
       Instr("RUnlock", "mx", {4, 5, 10, 13}),          \* 131: miss, miss on a literal, hit
       Instr("block", "Resolve", {4, 5, 0}),            \* 147
       Instr("block", "FindAddresses", {6, 10, 13, 0}), \* 160
       Instr("block", "Connect", {6, 7, 0}),            \* 68
       Instr("Lock", "mx", {8}),                        \* 75
       Instr("write", "rldpClients", {9}),              \* 76
       Instr("Unlock", "mx", {10, 13}),                 \* 77
       Instr("Lock", "mx", {11}),                       \* 229
       Instr("write", "activeRequests", {12}),          \* 230
       Instr("Unlock", "mx", {13}),                     \* 234
       Instr("block", "DoQuery", {14, 0}),              \* 237
       Instr("Lock", "mx", {15}),                       \* 242
       Instr("write", "activeRequests", {16}),          \* 243
       Instr("Unlock", "mx", {17, 0}),                  \* 244
       Instr("block", "DoQuery", {17, 0}) >>            \* 276

\* the pull-query handler, lines 91-124
QueryHandlerCode ==
    << Instr("Lock", "mx", {2}),                        \* 93
       Instr("read", "activeRequests", {3}),            \* 94
       Instr("Unlock", "mx", {4, 0}),                   \* 95
       Instr("block", "SendAnswer", {0}) >>             \* 112

\* mutant: the callback deletes without taking the lock
OnDisconnectCodeUnlocked ==
    << Instr("write", "rldpClients", {0}) >>

\* the disconnect callback, lines 80-84
OnDisconnectCode ==
    << Instr("Lock", "mx", {2}),                        \* 81
       Instr("write", "rldpClients", {3}),              \* 82
       Instr("Unlock", "mx", {0}) >>                    \* 83

\* two RoundTrip calls, a pull from the peer and a disconnect run concurrently
ThreadIds == Callers \cup {"handler", "disconnect"}

CodeOf(t) ==
    IF t \in Callers THEN RoundTripCode
    ELSE IF t = "handler" THEN QueryHandlerCode
    ELSE OnDisconnectCode

ReturnInstr == Instr("return", "", {})

\* the instruction thread t executes next
NextInstr(t) ==
    IF threads[t].pc = 0 THEN ReturnInstr ELSE CodeOf(t)[threads[t].pc]

\* thread t goes on to one of the instructions that can follow
Advance(t) ==
    \E n \in NextInstr(t).next : threads' = [threads EXCEPT ![t].pc = n]

\* sync.RWMutex.RLock: waits while a writer holds the lock
RLock(t) ==
    /\ NextInstr(t).op = "RLock"
    /\ mx.writer = ""
    /\ mx' = [mx EXCEPT !.readers = @ \cup {t}]
    /\ Advance(t)
    /\ UNCHANGED <<mainVars, xchg, decode, proof>>

\* sync.RWMutex.RUnlock
RUnlock(t) ==
    /\ NextInstr(t).op = "RUnlock"
    /\ mx' = [mx EXCEPT !.readers = @ \ {t}]
    /\ Advance(t)
    /\ UNCHANGED <<mainVars, xchg, decode, proof>>

\* sync.RWMutex.Lock: waits while anyone holds the lock
Lock(t) ==
    /\ NextInstr(t).op = "Lock"
    /\ mx.writer = ""
    /\ mx.readers = {}
    /\ mx' = [mx EXCEPT !.writer = t]
    /\ Advance(t)
    /\ UNCHANGED <<mainVars, xchg, decode, proof>>

\* sync.RWMutex.Unlock
Unlock(t) ==
    /\ NextInstr(t).op = "Unlock"
    /\ mx' = [mx EXCEPT !.writer = ""]
    /\ Advance(t)
    /\ UNCHANGED <<mainVars, xchg, decode, proof>>

\* a read or a write of one of the two tables
AccessTable(t) ==
    /\ NextInstr(t).op \in {"read", "write"}
    /\ Advance(t)
    /\ UNCHANGED <<mainVars, xchg, decode, mx, proof>>

\* a blocking collaborator call returns
CallReturns(t) ==
    /\ NextInstr(t).op = "block"
    /\ Advance(t)
    /\ UNCHANGED <<mainVars, xchg, decode, mx, proof>>

InitLock ==
    /\ rldpClients = [h \in Hosts |-> 0]
    /\ activeRequests = [c \in CallIds |-> NoStream]
    /\ sess = [c \in CallIds |-> NoSession]
    /\ call = [t \in Callers |-> IdleCall]
    /\ nCalls = 0
    /\ crashed = FALSE
    /\ lastWriter = [h \in Hosts |-> 0]
    /\ okSess = [h \in Hosts |-> 0]
    /\ discPending = [h \in Hosts |-> FALSE]
    /\ snap = NoSnap
    /\ sequential = FALSE
    /\ pull = NoPull
    /\ xchg = NoExchange
    /\ decode = NoDecode
    /\ proof = NoProof
    /\ mx = NoLock
    /\ threads = [t \in ThreadIds |-> [pc |-> 1]]

NextLock ==
    \E t \in ThreadIds :
      \/ RLock(t)
      \/ RUnlock(t)
      \/ Lock(t)
      \/ Unlock(t)
      \/ AccessTable(t)
      \/ CallReturns(t)

SpecLock == InitLock /\ [][NextLock]_vars

----------------------------------------------------------------------------
(* doGenerateMerkleProof (tvm/cell/evaa_proof.go).  A cell is its special    *)
(* flag, its bits and its references; a pruned branch stands for the cell    *)
(* whose hash and depth it stores.                                           *)

\* the length in bits of the keys of the dictionaries tried (256 in the code)
KeyBits == 2

Cell(bits, refs) == [special |-> FALSE, bits |-> bits, refs |-> refs]

\* lines 111-113: convertToPrunedBranch, an exotic cell holding c.Hash() and c.Depth(0)
convertToPrunedBranch(c) == [special |-> TRUE, bits |-> <<>>, refs |-> <<>>, hash |-> c]

\* a Must... call of the cell library has panicked
Panic == [special |-> FALSE, bits |-> <<>>, refs |-> <<>>, panic |-> TRUE]
Panicked(c) == "panic" \in DOMAIN c

\* the unsigned number written by a bit string, most significant bit first
ToUInt(bits) ==
    LET v[k \in 0..Len(bits)] == IF k = 0 THEN 0 ELSE 2 * v[k - 1] + bits[k]
    IN v[Len(bits)]

\* the w bits of the number v
UIntBits(v, w) == [j \in 1..w |-> BitOf(v, w, j)]

\* uint(math.Ceil(math.Log2(float64(n + 1))))
LenBits(n) == CHOOSE w \in 0..8 : 2 ^ w >= n + 1 /\ \A u \in 0..(w - 1) : 2 ^ u < n + 1

\* lines 128-137: readUnaryLength from bit number from on; 0 bits left is a panic
UnaryLength(bits, from) ==
    LET ones[k \in from..(Len(bits) + 1)] ==
          IF k > Len(bits) THEN -1
          ELSE IF bits[k] = 0 THEN 0
          ELSE IF ones[k + 1] < 0 THEN -1 ELSE 1 + ones[k + 1]
    IN ones[from]

NoLabel == [panic |-> TRUE, len |-> 0, label |-> <<>>]

Label(len, label) == [panic |-> FALSE, len |-> len, label |-> label]

\* lines 42-89: the label of a dictionary node is read from the head of its
\* bits: its length prefixLength and the bits it adds to the prefix.  Reading
\* past the end of the bits panics.
ReadLabel(bits, n) ==
    IF Len(bits) < 1 THEN NoLabel
    ELSE IF bits[1] = 0
      THEN LET len == UnaryLength(bits, 2) IN
           IF len < 0 \/ Len(bits) < 2 + len + len THEN NoLabel
           ELSE Label(len, SubSeq(bits, 3 + len, 2 + len + len))
    ELSE IF Len(bits) < 2 THEN NoLabel
    ELSE IF bits[2] = 0
      THEN LET w == LenBits(n) IN
           IF Len(bits) < 2 + w THEN NoLabel
           ELSE LET len == ToUInt(SubSeq(bits, 3, 2 + w)) IN
                IF Len(bits) < 2 + w + len THEN NoLabel
                ELSE Label(len, SubSeq(bits, 3 + w, 2 + w + len))
    ELSE LET w == LenBits(n) IN
         IF Len(bits) < 3 + w THEN NoLabel
         ELSE LET len == ToUInt(SubSeq(bits, 4, 3 + w)) IN
              Label(len, [j \in 1..len |-> bits[3]])

\* lines 154-166: the keys that begin with pp followed by bit
fetchKeys(pp, keys, bit) ==
    {key \in keys : SubSeq(key, 1, Len(pp) + 1) = pp \o <<bit>>}

\* lines 35-109.  A node whose label is empty is returned as it is (line 91);
\* any other node is rebuilt from its two references (lines 94-106).
RECURSIVE doGenerateMerkleProof(_, _, _, _)
doGenerateMerkleProof(prefix, originalCell, n, keys) ==
    IF keys = {} THEN convertToPrunedBranch(originalCell)
    ELSE LET lab == ReadLabel(originalCell.bits, n) IN
      IF lab.panic THEN Panic
      ELSE IF lab.len = 0 THEN originalCell
      ELSE IF Len(originalCell.refs) < 2 THEN Panic
      ELSE LET pp == prefix \o lab.label
               loaded == originalCell.refs
               left == IF loaded[1].special THEN loaded[1]
                       ELSE doGenerateMerkleProof(pp \o <<0>>, loaded[1], n - lab.len - 1,
                                                  fetchKeys(pp, keys, 0))
               right == IF loaded[2].special THEN loaded[2]
                        ELSE doGenerateMerkleProof(pp \o <<1>>, loaded[2], n - lab.len - 1,
                                                   fetchKeys(pp, keys, 1))
           IN IF Panicked(left) \/ Panicked(right) THEN Panic
              ELSE Cell(originalCell.bits, <<left, left>> \o SubSeq(loaded, 3, Len(loaded)))

\* the keys a dictionary can hold, as the bit lists bytesToBits makes of them
DictKeys == [1..KeyBits -> {0, 1}]

\* the three forms of a label: hml_short, hml_long and hml_same
LabelKinds == {"short", "long", "same"}

\* the label p of a node with n key bits left, in the form asked for; a label
\* of differing bits has no hml_same form and is written as hml_long
EncodeLabel(p, n, kind) ==
    IF kind = "short"
      THEN <<0>> \o [j \in 1..Len(p) |-> 1] \o <<0>> \o p
    ELSE IF kind = "same" /\ Len(p) > 0 /\ \A j \in 1..Len(p) : p[j] = p[1]
      THEN <<1, 1, p[1]>> \o UIntBits(Len(p), LenBits(n))
    ELSE <<1, 0>> \o UIntBits(Len(p), LenBits(n)) \o p

\* the number of bits after the first from that all the keys share
CommonLen(keys, from) ==
    CHOOSE len \in 0..(KeyBits - from) :
      /\ \A k1, k2 \in keys : SubSeq(k1, from + 1, from + len) = SubSeq(k2, from + 1, from + len)
      /\ \A more \in (len + 1)..(KeyBits - from) :
           \E k1, k2 \in keys : SubSeq(k1, from + 1, from + more) # SubSeq(k2, from + 1, from + more)

\* line 31: dict.AsCell(), the cell tree of the dictionary that maps each of
\* the keys to a value; a leaf holds its label and its value, a fork holds its
\* label and refers to the subtree of the keys that go on with 0 and to the
\* subtree of those that go on with 1
RECURSIVE AsCell(_, _, _)
AsCell(keys, from, kind) ==
    LET len == CommonLen(keys, from)
        any == CHOOSE k \in keys : TRUE
        label == EncodeLabel(SubSeq(any, from + 1, from + len), KeyBits - from, kind)
    IN IF from + len = KeyBits
         THEN Cell(label \o any, <<>>)
         ELSE Cell(label,
                   << AsCell({k \in keys : k[from + len + 1] = 0}, from + len + 1, kind),
                      AsCell({k \in keys : k[from + len + 1] = 1}, from + len + 1, kind) >>)

\* the dictionary with one child of its root already a pruned branch (0: none)
WithPruned(c, side) ==
    IF side = 0 \/ Len(c.refs) < 2 THEN c
    ELSE [c EXCEPT !.refs[side] = convertToPrunedBranch(c.refs[side])]

\* the keys of a dictionary that a lookup still finds when one side of its
\* root is pruned (lines 14-19 end the program for any other key)
Findable(keys, side) ==
    IF side = 0 \/ CommonLen(keys, 0) = KeyBits THEN keys
    ELSE {k \in keys : k[CommonLen(keys, 0) + 1] # side - 1}

\* line 32: the call doGenerateMerkleProof("", pricesSlice, 256, bitsValues)
GenerateProof ==
    /\ proof.pc = "call"
    /\ proof' = [proof EXCEPT !.pc = "done",
                   !.ret = doGenerateMerkleProof(<<>>, proof.dict, proof.n, proof.keys)]
    /\ UNCHANGED <<mainVars, xchg, decode, mx, threads>>

\* a dictionary and the keys asked for, all of them keys of the dictionary
InitProof ==
    \E held \in (SUBSET DictKeys) \ {{}} : \E kind \in LabelKinds : \E side \in 0..2 :
    \E keys \in SUBSET Findable(held, side) :
      /\ rldpClients = [h \in Hosts |-> 0]
      /\ activeRequests = [c \in CallIds |-> NoStream]
      /\ sess = [c \in CallIds |-> NoSession]
      /\ call = [t \in Callers |-> IdleCall]
      /\ nCalls = 0
      /\ crashed = FALSE
      /\ lastWriter = [h \in Hosts |-> 0]
      /\ okSess = [h \in Hosts |-> 0]
      /\ discPending = [h \in Hosts |-> FALSE]
      /\ snap = NoSnap
      /\ sequential = FALSE
      /\ pull = NoPull
      /\ xchg = NoExchange
      /\ decode = NoDecode
      /\ mx = NoLock
      /\ threads = NoThreads
      /\ proof = [pc |-> "call", dict |-> WithPruned(AsCell(held, 0, kind), side),
                  n |-> KeyBits, keys |-> keys, ret |-> Panic]

NextProof == GenerateProof

SpecProof == InitProof /\ [][NextProof]_vars

----------------------------------------------------------------------------
(* Properties *)

ExchangePcs == {"query", "cleanup", "respond", "pull"}
AcquisitionErrors == {"errParse", "errResolve", "errDHT", "errConnect"}
AllFalse(log) == \A k \in 1..Len(log) : ~log[k]

\* C1: once a RoundTrip call that registered its body under its request
\* identifier has returned, with a response or with an error, the
\* ActiveStream table holds no entry under that identifier; so when every
\* issued call has returned the table is empty.
C1_StreamReleasedOnReturn ==
    /\ \A t \in Callers :
         (call[t].pc = "idle" /\ call[t].staged
            /\ call[t].outcome \notin {"none", "panic"})
         => ~activeRequests[call[t].id].present
    /\ (~crashed /\ \A t \in Callers : call[t].pc = "idle")
         => \A c \in CallIds : ~activeRequests[c].present

\* C2: a call to a host whose previous call succeeded, with no disconnect
\* for the host since, uses the session of that call and invokes neither the
\* resolver nor the directory lookup nor a connect.
C2_SequentialCallsReuseSession ==
    \A t \in Callers :
      (call[t].pc # "idle" /\ call[t].okAtStart # 0)
      => /\ call[t].rl = call[t].okAtStart
         /\ call[t].pc \in {"stage"} \cup ExchangePcs
         /\ call[t].resolveLog = <<>>
         /\ call[t].finds = 0
         /\ call[t].attempted = <<>>

\* a second call is sending its request on the session that served the first
C2_Witness ==
    \E t \in Callers :
      /\ call[t].pc = "query"
      /\ call[t].id > 1
      /\ call[t].okAtStart # 0
      /\ call[t].rl = call[t].okAtStart

\* C3: when the disconnect callback of the session cached under a host
\* fires, the host's entry is gone from the cache, and the next call to the
\* host resolves (or decodes the literal), queries the directory and connects
\* afresh: the session it uses, if any, is one it has just created.
C3_DisconnectForcesReconnect ==
    /\ \A h \in Hosts : discPending[h] => rldpClients[h] = 0
    /\ \A t \in Callers :
         (call[t].afterDisc /\ call[t].pc # "idle")
         => /\ call[t].missed
            /\ (call[t].pc = "find" /\ ~HasAdnlSuffix(call[t].host))
                 => (Len(call[t].resolveLog) >= 1
                     /\ call[t].resolveLog[Len(call[t].resolveLog)])
            /\ (call[t].pc \in {"connect", "install", "setq", "setd"})
                 => call[t].finds = 1
            /\ (call[t].pc \in {"install", "setq", "setd"})
                 => (call[t].r = call[t].id /\ Len(call[t].attempted) >= 1)
            /\ (call[t].pc \in ExchangePcs)
                 => call[t].rl \in {0, call[t].id}

\* the call that follows a disconnect sends its request on a session of its own
C3_Witness ==
    \E t \in Callers :
      /\ call[t].afterDisc
      /\ call[t].pc = "query"
      /\ call[t].rl = call[t].id
      /\ \E s \in CallIds : s # call[t].id /\ sess[s].state = "dead"
                            /\ sess[s].host = call[t].host

\* the directory lookup of the call succeeded, the loop over the candidates
\* is over and no session came out of it
NoSessionObtained(c) ==
    /\ c.missed
    /\ c.finds = 1
    /\ c.err[1] # "dht"
    /\ c.pc \notin {"find", "connect", "install", "setq", "setd"}
    /\ c.r = 0

\* C4: if the directory lookup succeeds and no candidate yields a session
\* (every connect fails, or the list is empty), RoundTrip returns the
\* all-endpoints-unreachable error, sends no request and does not panic.
C4_NoEndpointReturnsError ==
    /\ ~crashed
    /\ \A t \in Callers :
         NoSessionObtained(call[t])
         => (call[t].pc = "idle" /\ call[t].outcome = "errConnect" /\ ~call[t].sent)

\* C5: under concurrent calls to one host the cache holds at most one session
\* for it, always the one of the last writer; while no session of the host
\* has disconnected, the last writer's session stays cached whatever the
\* losing calls do next.
C5_LastWriterWins ==
    \A h \in Hosts :
      /\ rldpClients[h] # 0 => rldpClients[h] = lastWriter[h]
      /\ (lastWriter[h] # 0
          /\ \A s \in CallIds : sess[s].host = h => sess[s].state # "dead")
         => rldpClients[h] = lastWriter[h]

\* two concurrent calls to one host have both stored a session; the cache
\* holds the later one and the earlier one is still up
C5_Witness ==
    \E t, u \in Callers :
      /\ t # u
      /\ call[t].host = call[u].host
      /\ call[t].pc \in {"setq", "setd", "stage"} /\ call[t].r # 0
      /\ call[u].pc \in {"setq", "setd", "stage"} /\ call[u].r # 0
      /\ sess[call[t].r].state = "live"
      /\ sess[call[u].r].state = "live"
      /\ rldpClients[call[t].host] = call[u].r
      /\ lastWriter[call[t].host] = call[u].r

\* the chunks a peer must get from a payload of length len pulled with chunk size c
ChunkCount(len, c) == (len + c - 1) \div c
MinOf(a, b) == IF a < b THEN a ELSE b

\* C6: for a registered payload of length L > 0 and a chunk size C > 0 the
\* answers to sequence numbers 0 .. ceil(L/C)-1 carry
\* payload[seqno*C .. min((seqno+1)*C, L)), isLast is set on the last of them
\* only, and together they are the payload.
C6_SequentialPullsRebuildPayload ==
    (pull.mode = "sequential" /\ Len(activeRequests[pull.id].Data) > 0)
    => LET payload == activeRequests[pull.id].Data
           L == Len(payload)
           C == pull.chunk
       IN /\ Len(pull.parts) <= ChunkCount(L, C)
          /\ \A n \in 1..Len(pull.parts) :
               /\ pull.parts[n].kind = "answer"
               /\ pull.parts[n].data = SubSeq(payload, (n - 1) * C + 1, MinOf(n * C, L))
               /\ pull.parts[n].isLast = (n = ChunkCount(L, C))
          /\ pull.done => Len(pull.parts) = ChunkCount(L, C)

\* C7: a pull whose mathematical offset seqno * maxChunkSize is at least the
\* length of the registered payload fails with the offset error and is not
\* answered, also when the product is outside the int32 range.
C7_OffsetPastEndIsRefused ==
    (pull.mode = "arbitrary"
       /\ pull.query.type = "GetNextPayloadPart"
       /\ activeRequests[pull.query.id].present
       /\ pull.query.seqno * pull.query.maxChunkSize
            >= Len(activeRequests[pull.query.id].Data))
    => pull.answer.kind = "errOffset"

\* C8: on a cache miss the candidates are dialled in the order of the
\* directory's list, each at most once, up to the first success; the session
\* of that first success is the one cached and the one used for the request.
C8_CandidatesInOrderUntilFirstSuccess ==
    \A t \in Callers :
      LET c == call[t]
          k == Len(c.attempted)
      IN c.missed =>
         /\ k <= Len(c.addresses)
         /\ c.attempted = SubSeq(c.addresses, 1, k)
         /\ \A a, b \in 1..k : c.attempted[a] = c.attempted[b] => a = b
         /\ c.pc = "connect" => (c.idx = k + 1 /\ c.triedAddresses = c.attempted /\ c.r = 0)
         /\ (c.pc \in {"install", "setq", "setd"} \/ (c.pc = "stage" /\ c.r # 0))
              => /\ k >= 1
                 /\ c.triedAddresses = SubSeq(c.addresses, 1, k - 1)
                 /\ c.r = c.id
                 /\ sess[c.r].host = c.host
         /\ c.pc \in {"setq", "setd"} => rldpClients[c.host] = c.r
         /\ (c.pc = "stage" /\ c.r # 0) => c.rl = c.r
         /\ (c.pc = "idle" /\ c.outcome = "errConnect")
              => (c.attempted = c.addresses /\ c.triedAddresses = c.addresses /\ c.r = 0)

\* the first candidate failed, the second gave the session that is cached
C8_Witness ==
    \E t \in Callers :
      /\ call[t].pc = "setd"
      /\ call[t].attempted = <<1, 2>>
      /\ call[t].triedAddresses = <<1>>
      /\ rldpClients[call[t].host] = call[t].r

\* C9: on a cache miss a literal host never reaches the resolver; any other
\* host has the resolver invoked up to the first success and at most 3
\* times; RoundTrip fails with the resolution error, wrapping the third
\* attempt's error, exactly when all 3 attempts failed, and then the
\* directory is not queried.
C9_ResolveRetries ==
    \A t \in Callers :
      LET c == call[t]
          k == Len(c.resolveLog)
      IN c.missed =>
         /\ k = c.i
         /\ k <= 3
         /\ HasAdnlSuffix(c.host) => (k = 0 /\ c.pc # "resolve" /\ c.outcome # "errResolve")
         /\ c.pc = "resolve" => (k < 3 /\ AllFalse(c.resolveLog) /\ c.finds = 0)
         /\ (c.pc = "find" /\ ~HasAdnlSuffix(c.host))
              => (k >= 1 /\ c.resolveLog[k] /\ AllFalse(SubSeq(c.resolveLog, 1, k - 1))
                  /\ c.finds = 0)
         /\ (c.pc = "idle" /\ c.outcome = "errResolve")
              => (k = 3 /\ AllFalse(c.resolveLog) /\ c.err = <<"resolve", 3>>
                  /\ c.finds = 0)
         /\ (k = 3 /\ AllFalse(c.resolveLog))
              => (c.pc = "idle" /\ c.outcome = "errResolve")

\* a call has returned the resolution error after three failed attempts
C9_Witness ==
    \E t \in Callers :
      /\ call[t].pc = "idle"
      /\ call[t].outcome = "errResolve"
      /\ call[t].resolveLog = <<FALSE, FALSE, FALSE>>

\* C10: a call that fails while decoding the literal, resolving, querying the
\* directory or connecting, with no disconnect meanwhile, leaves the session
\* cache and the ActiveStream table as they were when it began.
C10_FailedAcquisitionLeavesTables ==
    [][\A t \in Callers :
         (call[t].pc \in AcquiringPcs /\ call'[t].pc = "idle"
            /\ call'[t].outcome \in AcquisitionErrors /\ ~call'[t].disturbed)
         => /\ snap = <<rldpClients', activeRequests'>>
            /\ snap = <<rldpClients, activeRequests>>]_vars

\* a call has failed to connect while another host's session is cached
C10_Witness ==
    \E t \in Callers :
      /\ call[t].pc = "idle"
      /\ call[t].outcome = "errConnect"
      /\ ~call[t].disturbed
      /\ \E h \in Hosts : rldpClients[h] # 0
      /\ snap = <<rldpClients, activeRequests>>

\* the bytes of a list of PayloadParts, in order
RECURSIVE ConcatParts(_)
ConcatParts(parts) ==
    IF parts = <<>> THEN <<>> ELSE Head(parts).Data \o ConcatParts(Tail(parts))

\* C11: the PullRequests of a call carry its request identifier, the chunk
\* size 131072 and the sequence numbers 0, 1, 2, ... without gap or repeat;
\* no pull follows the first part with isLast; the returned body is the
\* concatenation of the parts received; a failed pull makes the call return
\* an error and no response.
C11_PullsInSequence ==
    LET x == xchg IN
    x.pc \in {"pull", "done"} =>
      /\ \A k \in 1..Len(x.pulls) :
           x.pulls[k] = [ID |-> x.ID, Seqno |-> k - 1, MaxChunkSize |-> 131072]
      /\ \A k \in 1..Len(x.parts) :
           x.parts[k].IsLast => (k = Len(x.pulls) /\ x.pc = "done")
      /\ (x.ret.kind = "response" /\ x.pulls # <<>>)
           => (x.ret.Body = ConcatParts(x.parts) /\ x.parts[Len(x.parts)].IsLast)
      /\ Len(x.pulls) > Len(x.parts) => x.ret.kind = "error"

\* C12: a call that returns a response has pulled the body exactly when the
\* response message announces a body and the request declared a positive
\* content length; otherwise it issued no pull and returns an empty body, and
\* for a request declaring no content length the response has the status
\* code of the response message and content length -1.
C12_PullsIffBodyAndDeclaredLength ==
    LET x == xchg
        engaged == ~x.res.NoPayload /\ x.request.ContentLength > 0
    IN /\ x.pc = "pull" => engaged
       /\ (x.pc = "done" /\ x.ret.kind = "response") =>
            /\ (x.pulls # <<>>) <=> engaged
            /\ ~engaged => x.ret.Body = <<>>
            /\ x.request.ContentLength <= 0 =>
                 (x.ret.StatusCode = x.res.StatusCode /\ x.ret.ContentLength = -1)

\* the values of the entries of a header list that carry the given name, in order
RECURSIVE ValuesOf(_, _)
ValuesOf(headers, name) ==
    IF headers = <<>> THEN <<>>
    ELSE (IF Head(headers).Name = name THEN <<Head(headers).Value>> ELSE <<>>)
         \o ValuesOf(Tail(headers), name)

\* C14: the header list of the request message has one Host entry, equal to
\* the request host; one Content-Length entry exactly when the declared
\* content length is positive; and for every other inbound name one entry per
\* value; whatever the inbound header map holds, Host and Content-Length
\* included.
C14_RequestHeaderList ==
    LET x == xchg
        declared == IF x.request.ContentLength > 0
                      THEN <<Sprint(x.request.ContentLength)>> ELSE <<>>
    IN x.pc # "build" =>
         /\ ValuesOf(x.Headers, "Host") = <<x.request.Host>>
         /\ ValuesOf(x.Headers, "Content-Length") = declared
         /\ \A n \in HeaderNames \ {"Host", "Content-Length"} :
              ValuesOf(x.Headers, n) = IF n \in DOMAIN x.request.Header
                                         THEN x.request.Header[n] ELSE <<>>
         /\ \A k \in 1..Len(x.Headers) : x.Headers[k].Name \in HeaderNames

\* the literal decodes, with the leading 'F', to 35 bytes that begin with the
\* tag 0x2d and end with the CRC-16 of the first 33
ValidLiteral(addr) ==
    /\ Len(addr) = 55
    /\ LET dec == Base32Decode(<<70>> \o ToUpper(addr)) IN
       /\ ~dec.err
       /\ Len(dec.buf) = 35
       /\ dec.buf[1] = 45
       /\ dec.buf[34] * 256 + dec.buf[35] = Crc16(SubSeq(dec.buf, 1, 33))

\* C13: for a valid literal parseADNLAddress returns bytes 1..32 of the
\* decoded buffer, the 32 bytes after the tag, so that the literal of a key
\* decodes to that key.
C13_DecodeReturnsEmbeddedKey ==
    (decode.pc = "done" /\ ValidLiteral(decode.addr))
    => /\ decode.ret.err = "nil"
       /\ decode.ret.key = SubSeq(Base32Decode(<<70>> \o ToUpper(decode.addr)).buf, 2, 33)
       /\ decode.kind \in {"upper", "lower"} => decode.ret.key = decode.key

\* C15: while the request query of a call with a body is in flight the
\* ActiveStream table holds, under the call's request identifier, the bytes
\* read from the body; and the bytes of a registered stream never change.
C15_StreamHeldWhileInFlight ==
    /\ [](\A t \in Callers :
            (call[t].pc = "query" /\ call[t].body)
            => activeRequests[call[t].id] = Stream(call[t].data))
    /\ [][\A id \in CallIds :
            (activeRequests[id].present /\ activeRequests'[id].present)
            => activeRequests'[id].Data = activeRequests[id].Data]_vars

\* two calls with bodies have their request queries in flight at once
C15_Witness ==
    \E t, u \in Callers :
      /\ t # u
      /\ call[t].pc = "query" /\ call[t].body
      /\ call[u].pc = "query" /\ call[u].body
      /\ activeRequests[call[t].id] = Stream(call[t].data)
      /\ Len(call[t].data) > 0

\* thread t holds the lock, shared or exclusive
Holds(t) == mx.writer = t \/ t \in mx.readers

\* C16: a thread about to read or write a table holds the lock, shared for
\* the cache lookup and exclusive for every write, so no thread writes a table
\* while another reads or writes one; and a thread inside a blocking
\* collaborator call holds no lock.
C16_TablesUnderLock ==
    /\ \A t \in ThreadIds :
         LET i == NextInstr(t) IN
         /\ i.op = "read" => Holds(t)
         /\ (i.op = "read" /\ i.on = "rldpClients") => t \in mx.readers
         /\ i.op = "write" => mx.writer = t
         /\ i.op = "block" => ~Holds(t)
    /\ \A t, u \in ThreadIds :
         (t # u /\ NextInstr(t).op = "write")
         => NextInstr(u).op \notin {"read", "write"}
    /\ mx.writer # "" => mx.readers = {}

\* a caller is inserting its session under the exclusive lock while the
\* other caller is connecting and the disconnect callback waits for the lock
C16_Witness ==
    /\ threads["c1"].pc = 8
    /\ mx.writer = "c1"
    /\ NextInstr("c2").on = "Connect"
    /\ threads["disconnect"].pc = 1
    /\ threads["handler"].pc = 4

\* C17: the cache entry of a host is removed only by the disconnect of the
\* session cached under it; the disconnect of another session created for
\* the host leaves a cached live session in place.
C17_OnlyOwnDisconnectEvicts ==
    [][\A h \in Hosts :
         (rldpClients[h] # 0 /\ rldpClients'[h] = 0)
         => sess'[rldpClients[h]].state = "dead"]_vars

\* C18: every session in the cache has its pull-query handler and its
\* disconnect handler installed.
C18_CachedSessionsHaveHandlers ==
    \A h \in Hosts :
      rldpClients[h] # 0
      => (sess[rldpClients[h]].onQuery /\ sess[rldpClients[h]].onDisconnect)

\* C19: a GetNextPayloadPart query on a registered stream of length L is
\* either refused with an error or answered with payload[offset..till) where
\* 0 <= offset < till <= L: the handler never panics and never answers with
\* an empty chunk.
C19_AnswerWithinPayload ==
    (pull.mode = "arbitrary"
       /\ pull.query.type = "GetNextPayloadPart"
       /\ activeRequests[pull.query.id].present)
    => LET payload == activeRequests[pull.query.id].Data
           offset == PullOffset(pull.query.seqno, pull.query.maxChunkSize)
           till == PullTill(offset, pull.query.maxChunkSize, Len(payload))
       IN /\ pull.answer.kind # "panic"
          /\ pull.answer.kind = "answer"
               => /\ 0 <= offset /\ offset < till /\ till <= Len(payload)
                  /\ pull.answer.data = SubSeq(payload, offset + 1, till)
                  /\ pull.answer.data # <<>>

\* the proof cell the claim expects in place of a child of a fork: a special
\* child itself, else the proof generated for the child and its keys
DerivedFrom(child, pp, bit, n, keys) ==
    IF child.special THEN child
    ELSE doGenerateMerkleProof(pp \o <<bit>>, child, n, fetchKeys(pp, keys, bit))

\* the call rebuilt the root of the dictionary: keys were asked for, the label
\* of the root is not empty and the root has its two references
RootRebuilt ==
    /\ proof.pc = "done"
    /\ proof.keys # {}
    /\ ~Panicked(proof.ret)
    /\ ReadLabel(proof.dict.bits, proof.n).len > 0

\* C20: when doGenerateMerkleProof rebuilds a fork for a non-empty set of
\* keys, the first reference of the result is derived from the left child and
\* the second from the right child (the child itself if special, else its
\* generated proof), and a child no requested key is routed to is replaced by
\* the pruned branch of that same child.
C20_ForkKeepsLeftAndRight ==
    RootRebuilt =>
      LET lab == ReadLabel(proof.dict.bits, proof.n)
          below == proof.n - lab.len - 1
          left == proof.dict.refs[1]
          right == proof.dict.refs[2]
      IN /\ Len(proof.ret.refs) = 2
         /\ proof.ret.refs[1] = DerivedFrom(left, lab.label, 0, below, proof.keys)
         /\ proof.ret.refs[2] = DerivedFrom(right, lab.label, 1, below, proof.keys)
         /\ (~left.special /\ fetchKeys(lab.label, proof.keys, 0) = {})
              => proof.ret.refs[1] = convertToPrunedBranch(left)
         /\ (~right.special /\ fetchKeys(lab.label, proof.keys, 1) = {})
              => proof.ret.refs[2] = convertToPrunedBranch(right)

====
